---- MODULE Spec2Model ----
(***************************************************************************)
(* Incremental content-addressed indexing and duplicate resolution of      *)
(* rename_archive: the catalog (data/index.db), the indexer                 *)
(* (scripts/indexer.py), the incremental pass and the duplicate dialogs of  *)
(* the GUI (renamer/gui.py).                                                *)
(*                                                                         *)
(* Strings are sequences of one-character strings.  Time is counted in     *)
(* half seconds, so the 1.0 s tolerance of the staleness test is 2 units.   *)
(* A file's content is the sequence of the lengths of its paragraphs.      *)
(*                                                                         *)
(* Spec is the indexer with the tree changing under it, SpecGui the GUI    *)
(* next to a run of the indexer, SpecPure the staleness test, the grouping  *)
(* and the library check applied to inputs drawn from bounded sets.        *)
(*                                                                         *)
(* delete_duplicates of rename_app.py unpacks four names from the           *)
(* six-field entries (line 549) and raises before its dialog exists, so    *)
(* its on_apply never runs; it is modelled up to the dialog only.          *)
(***************************************************************************)
EXTENDS Integers, Sequences, FiniteSets, TLC

\* ---------------------------------------------------------------- bounds
MaxRuns == 2        \* indexer runs started in a behaviour
MaxEnv == 1         \* changes made to the tree by other programs
Workers == 2        \* --workers: tasks of the pool running at once
MaxMtime == 3       \* largest modification time a file gets
MaxScans == 1       \* times the user presses the scan button
MaxDialogs == 2     \* times the user opens a duplicate dialog
GuiRuns == 1        \* indexer runs while the GUI is in use
GuiEnv == 1         \* changes by other programs while the GUI is in use
MaxEntries == 3     \* entries of the list given to the grouping
MaxLocal == 2       \* entries of the list given to the library check
MaxUpserts == 4     \* writes to the table of rows in a behaviour
MaxViewScans == 2   \* scans of the file system in the window of rows
MaxRawParts == 12   \* parts an extractor returns for one file

\* ------------------------------------------------------ program constants
TolHalfSeconds == 2     \* abs(old_mtime - mtime) < 1.0, in half seconds
MaxParts == 10          \* parts[:10]
MaxBlockLen == 5000     \* str(block)[:5000]

\* Python's None
None == <<"None">>

\* ------------------------------------------------------------- strings
LowerChar(ch) ==
    CASE ch = "A" -> "a"
      [] ch = "B" -> "b"
      [] ch = "L" -> "l"
      [] ch = "R" -> "r"
      [] OTHER -> ch

\* str.lower()
Lower(s) == [i \in DOMAIN s |-> LowerChar(s[i])]

\* s.split('/') : the segments of s between separators
RECURSIVE SplitSep(_, _, _)
SplitSep(s, i, cur) ==
    IF i > Len(s) THEN <<cur>>
    ELSE IF s[i] = "/" THEN <<cur>> \o SplitSep(s, i + 1, <<>>)
    ELSE SplitSep(s, i + 1, Append(cur, s[i]))

\* posixpath.normpath, the loop over the components: "" and "." are dropped,
\* ".." removes the component before it (at the root it is dropped)
RECURSIVE NormComps(_, _, _)
NormComps(comps, i, acc) ==
    IF i > Len(comps) THEN acc
    ELSE LET c == comps[i] IN
         IF c = <<>> \/ c = <<".">> THEN NormComps(comps, i + 1, acc)
         ELSE IF c = <<".", ".">> THEN
              NormComps(comps, i + 1,
                        IF Len(acc) > 0 THEN SubSeq(acc, 1, Len(acc) - 1) ELSE acc)
         ELSE NormComps(comps, i + 1, Append(acc, c))

RECURSIVE JoinSep(_, _)
JoinSep(comps, i) ==
    IF i > Len(comps) THEN <<>>
    ELSE <<"/">> \o comps[i] \o JoinSep(comps, i + 1)

\* os.path.normpath of an absolute path
posix_normpath(s) ==
    LET comps == NormComps(SplitSep(s, 1, <<>>), 1, <<>>) IN
    IF Len(comps) = 0 THEN <<"/">> ELSE JoinSep(comps, 1)

\* os.path.basename
basename(s) ==
    LET comps == SplitSep(s, 1, <<>>) IN comps[Len(comps)]

\* --------------------------------------------------------------- the tree
RootR == <<"/", "R">>
RootL == <<"/", "L">>
Roots == {RootR, RootL}

pRa == <<"/", "R", "/", "a">>
pRA == <<"/", "R", "/", "A">>
pRbb == <<"/", "R", "/", "b", "b">>
pLa == <<"/", "L", "/", "a">>
FilePaths == {pRa, pRA, pRbb, pLa}

\* the folder R spelled through its sibling, and its files spelled so
DottedR == <<"/", "L", "/", ".", ".", "/", "R">>
pDa == DottedR \o <<"/", "a">>
pDA == DottedR \o <<"/", "A">>
pDbb == DottedR \o <<"/", "b", "b">>

\* the spellings of the folders and files of the tree
Spellings == FilePaths \cup Roots \cup {DottedR, pDa, pDA, pDbb}

\* os.path.normpath, computed once for each spelling
NormOf == [s \in Spellings |-> posix_normpath(s)]

normpath(s) == IF s \in Spellings THEN NormOf[s] ELSE posix_normpath(s)

\* p lies in the directory root (Path.rglob / Path.iterdir of root)
UnderRoot(p, root) ==
    /\ Len(p) > Len(root) + 1
    /\ SubSeq(p, 1, Len(root)) = root
    /\ p[Len(root) + 1] = "/"

\* file contents: the lengths of the paragraphs of the file
cOne == <<5>>
cTwo == <<2, 1>>
cBig == <<7>>
Contents == {cOne, cTwo, cBig}

RECURSIVE SumSeq(_, _)
SumSeq(s, i) == IF i > Len(s) THEN 0 ELSE s[i] + SumSeq(s, i + 1)

\* st_size: the paragraphs and a blank line between two of them
SizeOf(c) == SumSeq(c, 1) + 2 * (Len(c) - 1)

NoFile == [absent |-> TRUE]
DiskFile == [content : Contents, mtime : 0..MaxMtime, readable : BOOLEAN]

Exists(d, p) == d[p] # NoFile

\* hashlib.sha256 of the bytes read: equal for equal contents, different for
\* different ones
Digest(c) == <<"sha256", c>>

\* ------------------------------------------------------------ the catalog
NoRow == [absent |-> TRUE]

\* the largest id of the files table (0 when it is empty)
MaxRowId(f) ==
    LET ids == {f[p].id : p \in {q \in DOMAIN f : f[q] # NoRow}} IN
    IF ids = {} THEN 0 ELSE CHOOSE i \in ids : \A j \in ids : j <= i

NoTx == [owner |-> None]

NoTask == [pc |-> "none"]

VARIABLES
    disk,       \* the files of the tree: path -> content, mtime, readable
    files,      \* the files table as committed: path -> row
    texts,      \* the texts table as committed: a set of rows
    tx,         \* the open write transaction: its connection's view
    run,        \* the indexer run: active, root, force
    task,       \* index_file of each enumerated path: position and locals
    hist,       \* how the previous run ended (auxiliary)
    snap,       \* the catalog when the current run started (auxiliary)
    quiet,      \* nothing but the indexer acted since the last run started
    envLeft,    \* changes other programs may still make to the tree
    runsLeft,   \* runs that may still be started
    pool,       \* --workers of the runs
    undeletable, \* the files os.remove fails on (permission denied, in use)
    probe,      \* an input of the staleness test and the answers to it
    tbl,        \* the files table as rows, and the connections writing to it
    view,       \* the window of a scan of the file system: list, tree, callbacks
    folder,     \* self.folder
    entries,    \* self.entries: orig, fh, sz
    fs,         \* self._scan_thread: the filesystem scan worker
    incs,       \* the incremental workers started, with their locals
    uiq,        \* the callbacks scheduled with root.after(0, ...)
    lib,        \* the dialog of check_library_duplicates
    dup,        \* the dialog of delete_duplicates
    result,     \* what the last handler of a dialog did (auxiliary)
    scansLeft,  \* scans the user may still ask for
    dlgLeft     \* dialogs the user may still open

guiVars == <<folder, entries, fs, incs, uiq, lib, dup, result, scansLeft, dlgLeft>>

restVars == <<pool, undeletable, probe, tbl, view, guiVars>>

vars == <<disk, files, texts, tx, run, task, hist, snap, quiet, envLeft, runsLeft,
          pool, undeletable, probe, tbl, view, guiVars>>

\* ------------------------------------------------ scripts/indexer.py
\* file_sha256: None when the file cannot be opened or read
file_sha256(d, p) ==
    IF Exists(d, p) /\ d[p].readable THEN Digest(d[p].content) ELSE None

\* the text of paragraph k of content c, cut to n characters
Text(c, k, n) == [c |-> c, k |-> k, n |-> n]

\* extract_text_for_index, the fallback branch: the non-empty paragraphs,
\* at most 10 of them; [] when the file cannot be read
extract_text_for_index(d, p) ==
    IF Exists(d, p) /\ d[p].readable
    THEN LET c == d[p].content
             keep == SelectSeq([k \in 1..Len(c) |-> <<k, c[k]>>], LAMBDA e : e[2] > 0)
         IN  [i \in 1..(IF Len(keep) < MaxParts THEN Len(keep) ELSE MaxParts) |->
                 Text(c, keep[i][1], keep[i][2])]
    ELSE <<>>

Abs(x) == IF x < 0 THEN -x ELSE x

\* index_file, lines 171-175: the stored row makes the file be skipped
UnchangedInverted(row, size, mtime) ==
    /\ row # NoRow
    /\ row.size = size
    /\ Abs(row.mtime - mtime) >= TolHalfSeconds

\* the skip test with the tolerance included
UnchangedInclusive(row, size, mtime) ==
    /\ row # NoRow
    /\ row.size = size
    /\ Abs(row.mtime - mtime) <= TolHalfSeconds

Unchanged(row, size, mtime) ==
    /\ row # NoRow
    /\ row.size = size
    /\ Abs(row.mtime - mtime) < TolHalfSeconds

\* a skip test that leaves --rebuild out
SkipsForced(row, force, size, mtime) ==
    row # NoRow /\ Unchanged(row, size, mtime)

\* index_file, lines 171-175: "if row and not force_reindex" and the test
Skips(row, force, size, mtime) ==
    row # NoRow /\ ~force /\ Unchanged(row, size, mtime)

\* the staleness oracle of the spec: the negation of the skip test
isStale(row, size, mtime) == ~Unchanged(row, size, mtime)

Terminal == {"skipped", "indexed", "stat_failed", "failed"}
InProgress == {"hashing", "extracting", "writing", "inserting"}

Enumerated == {p \in FilePaths : task[p].pc # "none"}
Busy == {p \in FilePaths : task[p].pc \in InProgress}

\* what another connection sees of a transaction's writes: nothing before
\* conn.commit() (sqlite3 opens a transaction before the first UPDATE/INSERT)
Autocommit(committed, staged, atCommit) == staged

Durable(committed, staged, atCommit) == IF atCommit THEN staged ELSE committed

\* walk_and_index, lines 240-246: an exception of a task is caught when its
\* result is read, the file is printed as failed and the loop goes on
AbortRun(r) == [r EXCEPT !.active = FALSE, !.ended = "aborted"]

FutureResult(r) == r

\* walk_and_index: rglob('*') with is_file(), then one task per file
StartRun(root, force) ==
    /\ ~run.active
    /\ runsLeft > 0
    /\ runsLeft' = runsLeft - 1
    /\ run' = [active |-> TRUE, root |-> root, force |-> force, ended |-> "no"]
    /\ task' = [p \in FilePaths |->
                  IF UnderRoot(p, root) /\ Exists(disk, p)
                  THEN [pc |-> "unseen"] ELSE NoTask]
    /\ hist' = [kind |-> run.ended, root |-> run.root, force |-> run.force,
                out |-> [p \in FilePaths |-> task[p].pc], quiet |-> quiet]
    /\ snap' = [files |-> files, texts |-> texts]
    /\ quiet' = TRUE
    /\ UNCHANGED <<disk, files, texts, tx, envLeft>>
    /\ UNCHANGED restVars

\* _open_db_connection, lines 81-87: a connection of its own for the task
_open_db_connection == "open"

\* index_file, lines 157-175: stat, the connection, the SELECT, the skip with
\* its conn.close()
CheckStale(p) ==
    /\ run.active
    /\ task[p].pc = "unseen"
    /\ Cardinality(Busy) < pool
    /\ IF ~Exists(disk, p)
       THEN task' = [task EXCEPT ![p] = [pc |-> "stat_failed"]]
       ELSE LET size == SizeOf(disk[p].content)
                mtime == disk[p].mtime
                row == files[p]
            IN  IF Skips(row, run.force, size, mtime)
                THEN task' = [task EXCEPT ![p] = [pc |-> "skipped", conn |-> "closed"]]
                ELSE task' = [task EXCEPT ![p] =
                        [pc |-> "hashing", size |-> size, mtime |-> mtime,
                         row |-> row, conn |-> _open_db_connection]]
    /\ UNCHANGED <<disk, files, texts, tx, run, hist, snap, quiet, envLeft, runsLeft>>
    /\ UNCHANGED restVars

\* a caller that gives up on a file without a fingerprint
HashOutcomeChecked(sha) == IF sha = None THEN "failed" ELSE "extracting"

\* index_file, lines 177-203: the result of file_sha256 is not tested, the
\* metadata and the text are extracted whatever it is
HashOutcome(sha) == "extracting"

\* index_file, line 177
HashFile(p) ==
    /\ run.active
    /\ task[p].pc = "hashing"
    /\ task' = [task EXCEPT ![p] =
                  [pc |-> HashOutcome(file_sha256(disk, p)), size |-> task[p].size,
                   mtime |-> task[p].mtime, row |-> task[p].row,
                   sha |-> file_sha256(disk, p), conn |-> task[p].conn]]
    /\ UNCHANGED <<disk, files, texts, tx, run, hist, snap, quiet, envLeft, runsLeft>>
    /\ UNCHANGED restVars

\* an index_file that stores every part the extractor returned
AllParts(parts) == parts

\* index_file, line 203: parts = parts[:10]
FirstParts(parts) ==
    SubSeq(parts, 1, IF Len(parts) < MaxParts THEN Len(parts) ELSE MaxParts)

\* index_file, lines 178-203
ExtractFile(p) ==
    /\ run.active
    /\ task[p].pc = "extracting"
    /\ task' = [task EXCEPT ![p] =
                  [pc |-> "writing", size |-> task[p].size,
                   mtime |-> task[p].mtime, row |-> task[p].row,
                   sha |-> task[p].sha,
                   parts |-> FirstParts(extract_text_for_index(disk, p)),
                   conn |-> task[p].conn]]
    /\ UNCHANGED <<disk, files, texts, tx, run, hist, snap, quiet, envLeft, runsLeft>>
    /\ UNCHANGED restVars

\* an UPDATE without its WHERE clause
UpdateEveryRow(f, id, size, mtime, sha, nb) ==
    [q \in DOMAIN f |->
        IF f[q] # NoRow
        THEN [id |-> f[q].id, size |-> size, mtime |-> mtime, sha |-> sha, nb |-> nb]
        ELSE f[q]]

\* UPDATE files SET ... WHERE id=?
UpdateById(f, id, size, mtime, sha, nb) ==
    [q \in DOMAIN f |->
        IF f[q] # NoRow /\ f[q].id = id
        THEN [id |-> id, size |-> size, mtime |-> mtime, sha |-> sha, nb |-> nb]
        ELSE f[q]]

\* INSERT OR REPLACE INTO files(path, ...): the row of the path is deleted
\* and a row with the next id is inserted
InsertOrReplace(f, p, size, mtime, sha, nb) ==
    [f EXCEPT ![p] = [id |-> MaxRowId(f) + 1, size |-> size, mtime |-> mtime,
                      sha |-> sha, nb |-> nb]]

\* index_file, lines 216-220: one INSERT per non-empty block, cut to 5000
BlockRows(fid, parts, p) ==
    {[file_id |-> fid, block_index |-> i - 1,
      text |-> Text(parts[i].c, parts[i].k,
                    IF parts[i].n < MaxBlockLen THEN parts[i].n ELSE MaxBlockLen),
      src |-> p] : i \in {j \in DOMAIN parts : parts[j].n > 0}}

\* index_file, lines 205-215: the first statements of the transaction
WriteRow(p) ==
    /\ run.active
    /\ task[p].pc = "writing"
    /\ tx.owner = None
    /\ LET t == task[p]
           staged ==
             IF t.row # NoRow
             THEN [files |-> UpdateById(files, t.row.id, t.size, t.mtime, t.sha,
                                        Cardinality(BlockRows(0, t.parts, p))),
                   texts |-> {r \in texts : r.file_id # t.row.id},
                   fid |-> t.row.id]
             ELSE [files |-> InsertOrReplace(files, p, t.size, t.mtime, t.sha,
                                             Cardinality(BlockRows(0, t.parts, p))),
                   texts |-> texts,
                   fid |-> MaxRowId(files) + 1]
       IN  /\ tx' = [owner |-> p, files |-> staged.files, texts |-> staged.texts,
                     fid |-> staged.fid]
           /\ files' = Durable(files, staged.files, FALSE)
           /\ texts' = Durable(texts, staged.texts, FALSE)
    /\ task' = [task EXCEPT ![p].pc = "inserting"]
    /\ UNCHANGED <<disk, run, hist, snap, quiet, envLeft, runsLeft>>
    /\ UNCHANGED restVars

\* index_file, lines 216-223: the INSERTs of the blocks, conn.commit() and
\* conn.close()
InsertTextsAndCommit(p) ==
    /\ run.active
    /\ task[p].pc = "inserting"
    /\ tx.owner = p
    /\ LET staged == tx.texts \cup BlockRows(tx.fid, task[p].parts, p)
       IN  /\ files' = Durable(files, tx.files, TRUE)
           /\ texts' = Durable(texts, staged, TRUE)
    /\ tx' = NoTx
    /\ task' = [task EXCEPT ![p].pc = "indexed", ![p].conn = "closed"]
    /\ UNCHANGED <<disk, run, hist, snap, quiet, envLeft, runsLeft>>
    /\ UNCHANGED restVars

\* a caller that takes a future that raised for one that returned
ExceptionAsIndexed(t) == [t EXCEPT !.pc = "indexed"]

\* a caller that submits the file again when its future raised
ExceptionRetried(t) == [pc |-> "unseen"]

\* walk_and_index, lines 242-243: ok, msg = False, str(e)
ExceptionResult(t) == [t EXCEPT !.pc = "failed"]

\* a summary that leaves out the files whose stat failed
CountedWithoutStat(pc) ==
    IF pc = "indexed" THEN "processed"
    ELSE IF pc = "skipped" THEN "skipped"
    ELSE IF pc = "failed" THEN "failed"
    ELSE "none"

\* the results of index_file as the three outcomes of a run: (True,
\* 'indexed') is processed, (False, 'skipped') is skipped, (False,
\* 'stat_failed') and the (False, str(e)) of walk_and_index are failed
Counted(pc) ==
    IF pc = "indexed" THEN "processed"
    ELSE IF pc = "skipped" THEN "skipped"
    ELSE IF pc \in {"stat_failed", "failed"} THEN "failed"
    ELSE "none"

\* the number of files of each outcome
Summary(tk) ==
    [k \in {"processed", "skipped", "failed"} |->
        Cardinality({p \in FilePaths : Counted(tk[p].pc) = k})]

\* a statement or the commit raises sqlite3.Error (database is locked, disk
\* I/O error): the exception leaves index_file, the transaction is rolled
\* back with its connection, and walk_and_index reports the file (lines 240-246)
PersistFail(p) ==
    /\ run.active
    /\ task[p].pc \in {"writing", "inserting"}
    /\ tx' = IF tx.owner = p THEN NoTx ELSE tx
    /\ task' = [task EXCEPT ![p] = ExceptionResult(task[p])]
    /\ run' = FutureResult(run)
    /\ UNCHANGED <<disk, files, texts, hist, snap, quiet, envLeft, runsLeft>>
    /\ UNCHANGED restVars

\* walk_and_index, lines 238-247: every future has completed
FinishRun ==
    /\ run.active
    /\ \A p \in FilePaths : task[p].pc \in Terminal \cup {"none"}
    /\ run' = [run EXCEPT !.active = FALSE, !.ended = "completed"]
    /\ UNCHANGED <<disk, files, texts, tx, task, hist, snap, quiet, envLeft, runsLeft>>
    /\ UNCHANGED restVars

\* the process is stopped during the run: the tasks and the open transaction
\* are lost, what was committed stays
Interrupt ==
    /\ run.active
    /\ \E p \in FilePaths : task[p].pc \notin Terminal \cup {"none"}
    /\ run' = [run EXCEPT !.active = FALSE, !.ended = "interrupted"]
    /\ task' = [p \in FilePaths |->
                  IF task[p].pc \in Terminal THEN task[p] ELSE NoTask]
    /\ tx' = NoTx
    /\ UNCHANGED <<disk, files, texts, hist, snap, quiet, envLeft, runsLeft>>
    /\ UNCHANGED restVars

\* ------------------------------------------------- the rest of the system
\* another program rewrites or touches, removes or protects a file of the tree
EnvWrite(p, c, dt) ==
    /\ envLeft > 0
    /\ Exists(disk, p)
    /\ disk[p].mtime + dt <= MaxMtime
    /\ disk' = [disk EXCEPT ![p] =
                  [content |-> c, mtime |-> disk[p].mtime + dt,
                   readable |-> disk[p].readable]]
    /\ envLeft' = envLeft - 1
    /\ quiet' = FALSE
    /\ UNCHANGED <<files, texts, tx, run, task, hist, snap, runsLeft>>
    /\ UNCHANGED restVars

EnvDelete(p) ==
    /\ envLeft > 0
    /\ Exists(disk, p)
    /\ disk' = [disk EXCEPT ![p] = NoFile]
    /\ envLeft' = envLeft - 1
    /\ quiet' = FALSE
    /\ UNCHANGED <<files, texts, tx, run, task, hist, snap, runsLeft>>
    /\ UNCHANGED restVars

EnvChmod(p) ==
    /\ envLeft > 0
    /\ Exists(disk, p)
    /\ disk' = [disk EXCEPT ![p].readable = ~disk[p].readable]
    /\ envLeft' = envLeft - 1
    /\ quiet' = FALSE
    /\ UNCHANGED <<files, texts, tx, run, task, hist, snap, runsLeft>>
    /\ UNCHANGED restVars

\* ------------------------------------------------- strings, continued
CharCode(ch) ==
    CASE ch = "." -> 46
      [] ch = "/" -> 47
      [] ch = "A" -> 65
      [] ch = "B" -> 66
      [] ch = "L" -> 76
      [] ch = "R" -> 82
      [] ch = "_" -> 95
      [] ch = "a" -> 97
      [] ch = "b" -> 98
      [] OTHER -> 0

\* a < b for two strings (sqlite's BINARY collation, ORDER BY path)
RECURSIVE StrLessFrom(_, _, _)
StrLessFrom(a, b, i) ==
    IF i > Len(a) THEN i <= Len(b)
    ELSE IF i > Len(b) THEN FALSE
    ELSE IF a[i] = b[i] THEN StrLessFrom(a, b, i + 1)
    ELSE CharCode(a[i]) < CharCode(b[i])

StrLess(a, b) == StrLessFrom(a, b, 1)

RECURSIVE SortPaths(_)
SortPaths(S) ==
    IF S = {} THEN <<>>
    ELSE LET m == CHOOSE x \in S : \A y \in S \ {x} : StrLess(x, y)
         IN  <<m>> \o SortPaths(S \ {m})

\* the file a path names: the tree has no links, so ".." and "." resolve as
\* normpath resolves them
DiskAt(d, p) == IF normpath(p) \in FilePaths THEN d[normpath(p)] ELSE NoFile

\* os.path.exists
path_exists(d, p) == DiskAt(d, p) # NoFile

\* Path(folder).iterdir() / rglob('*'): the files of the folder, each path
\* spelled as the folder is
Listing(fold) ==
    LET under == SortPaths({p \in FilePaths : UnderRoot(p, normpath(fold))})
    IN  [i \in DOMAIN under |->
            fold \o SubSeq(under[i], Len(normpath(fold)) + 1, Len(under[i]))]

\* a dict as the sequence of its items in insertion order
DictHas(dct, k) == \E i \in DOMAIN dct : dct[i].k = k

DictGet(dct, k) == dct[CHOOSE i \in DOMAIN dct : dct[i].k = k].v

DictPut(dct, k, v) ==
    IF DictHas(dct, k)
    THEN [i \in DOMAIN dct |-> IF dct[i].k = k THEN [k |-> k, v |-> v] ELSE dct[i]]
    ELSE Append(dct, [k |-> k, v |-> v])

\* dct.setdefault(k, []).append(x)
DictAppend(dct, k, x) ==
    DictPut(dct, k, Append(IF DictHas(dct, k) THEN DictGet(dct, k) ELSE <<>>, x))

\* ------------------------------------------------ renamer/index.py
\* path LIKE pat || '%': sqlite compares ASCII letters without case and "_"
\* matches any character
CharLike(pc, ch) == pc = "_" \/ LowerChar(pc) = LowerChar(ch)

LikePrefix(s, pat) ==
    /\ Len(s) >= Len(pat)
    /\ \A i \in 1..Len(pat) : CharLike(pat[i], s[i])

RowDict(f, p) == [path |-> p, size |-> f[p].size, sha |-> f[p].sha]

\* files_in_folder: the rows under the resolved folder, ORDER BY path
files_in_folder(f, fold) ==
    LET ps == SortPaths({p \in FilePaths :
                  f[p] # NoRow /\ LikePrefix(p, normpath(fold) \o <<"/">>)})
    IN  [i \in DOMAIN ps |-> RowDict(f, ps[i])]

\* find_files_by_hash: the rows with the fingerprint, in rowid order
RECURSIVE ByRowId(_, _)
ByRowId(f, S) ==
    IF S = {} THEN <<>>
    ELSE LET m == CHOOSE x \in S : \A y \in S : f[x].id <= f[y].id
         IN  <<RowDict(f, m)>> \o ByRowId(f, S \ {m})

find_files_by_hash(f, sha) ==
    ByRowId(f, {p \in FilePaths : f[p] # NoRow /\ f[p].sha = sha})

\* ------------------------------------------------ renamer/gui.py: scan
NoFs == [alive |-> FALSE, todo |-> <<>>]

Entry(orig, fh, sz) == [orig |-> orig, fh |-> fh, sz |-> sz]

\* scan(), lines 601-753 and 823-825: nothing while the scan thread is
\* alive; the rows of the catalog and an incremental worker when there are
\* rows for the folder; the scan thread otherwise
DoScan ==
    IF fs.alive
    THEN UNCHANGED <<entries, fs, incs>>
    ELSE LET rows == files_in_folder(files, folder) IN
         IF rows # <<>>
         THEN /\ entries' = [i \in DOMAIN rows |->
                               Entry(rows[i].path, rows[i].sha, rows[i].size)]
              /\ incs' = Append(incs,
                    [pc |-> "begin", fold |-> normpath(folder), todo |-> <<>>,
                     db_map |-> [p \in FilePaths |-> NoRow],
                     p |-> None, sp |-> None, size |-> 0, fh |-> None])
              /\ UNCHANGED fs
         ELSE /\ entries' = <<>>
              /\ fs' = [alive |-> TRUE, todo |-> Listing(folder)]
              /\ UNCHANGED incs

\* the user presses the scan button
Scan ==
    /\ scansLeft > 0
    /\ scansLeft' = scansLeft - 1
    /\ DoScan
    /\ UNCHANGED <<disk, files, texts, tx, run, task, hist, snap, quiet, envLeft,
                   runsLeft, pool, undeletable, probe, tbl, view>>
    /\ UNCHANGED <<folder, uiq, lib, dup, result, dlgLeft>>

\* worker, lines 767-808: the next file of the folder is hashed and appended
FsStep ==
    /\ fs.alive
    /\ fs.todo # <<>>
    /\ LET f == Head(fs.todo) IN
       /\ entries' =
             IF path_exists(disk, f)
             THEN Append(entries,
                     Entry(f, file_sha256(disk, normpath(f)),
                           SizeOf(DiskAt(disk, f).content)))
             ELSE entries
       /\ fs' = [fs EXCEPT !.todo = Tail(fs.todo)]
    /\ UNCHANGED <<disk, files, texts, tx, run, task, hist, snap, quiet, envLeft,
                   runsLeft, pool, undeletable, probe, tbl, view>>
    /\ UNCHANGED <<folder, incs, uiq, lib, dup, result, scansLeft, dlgLeft>>

\* worker, lines 810-821: the loop is over and the thread ends
FsDone ==
    /\ fs.alive
    /\ fs.todo = <<>>
    /\ fs' = NoFs
    /\ UNCHANGED <<disk, files, texts, tx, run, task, hist, snap, quiet, envLeft,
                   runsLeft, pool, undeletable, probe, tbl, view>>
    /\ UNCHANGED <<folder, entries, incs, uiq, lib, dup, result, scansLeft, dlgLeft>>

\* incremental_worker, lines 676-678: the rows WHERE path LIKE folder + '%'
db_map(f, fold) ==
    [p \in FilePaths |-> IF LikePrefix(p, fold) THEN f[p] ELSE NoRow]

\* incremental_worker, lines 672-678: the rows LIKE folder || '%' are read once
IncBegin(w) ==
    /\ w \in DOMAIN incs
    /\ incs[w].pc = "begin"
    /\ incs' = [incs EXCEPT ![w].pc = "loop",
                            ![w].todo = Listing(incs[w].fold),
                            ![w].db_map = db_map(files, incs[w].fold)]
    /\ UNCHANGED <<disk, files, texts, tx, run, task, hist, snap, quiet, envLeft,
                   runsLeft, pool, undeletable, probe, tbl, view>>
    /\ UNCHANGED <<folder, entries, fs, uiq, lib, dup, result, scansLeft, dlgLeft>>

\* incremental_worker, line 690: the file is unchanged for the rows read
\* (every writer of the catalog stores an mtime, so "mtime or 0" is the mtime)
GuiUnchanged(db_row, size, mtime) ==
    /\ db_row # NoRow
    /\ db_row.size = size
    /\ Abs(db_row.mtime - mtime) < TolHalfSeconds

\* incremental_worker, lines 679-732, one turn of the loop: a file that is
\* new or changed is hashed and written with INSERT OR REPLACE (an error of
\* the write is swallowed), and a callback that adds its row is scheduled;
\* ok: the write and its commit succeed
IncStep(w, ok) ==
    /\ w \in DOMAIN incs
    /\ incs[w].pc = "loop"
    /\ incs[w].todo # <<>>
    /\ ok => tx.owner = None
    /\ LET me == incs[w]
           p == Head(me.todo)
       IN  IF ~Exists(disk, p)
           THEN /\ incs' = [incs EXCEPT ![w].todo = Tail(me.todo), ![w].p = p]
                /\ UNCHANGED <<files, uiq, quiet>>
           ELSE LET size == SizeOf(disk[p].content)
                    mtime == disk[p].mtime
                IN  IF GuiUnchanged(me.db_map[p], size, mtime)
                    THEN /\ incs' = [incs EXCEPT ![w].todo = Tail(me.todo),
                                        ![w].p = p, ![w].sp = p, ![w].size = size]
                         /\ UNCHANGED <<files, uiq, quiet>>
                    ELSE /\ incs' = [incs EXCEPT ![w].todo = Tail(me.todo),
                                        ![w].p = p, ![w].sp = p, ![w].size = size,
                                        ![w].fh = file_sha256(disk, p)]
                         /\ files' = IF ok
                                     THEN InsertOrReplace(files, p, size, mtime,
                                                          file_sha256(disk, p), 0)
                                     ELSE files
                         /\ quiet' = IF ok THEN FALSE ELSE quiet
                         /\ uiq' = Append(uiq, [w |-> w])
    /\ UNCHANGED <<disk, texts, tx, run, task, hist, snap, envLeft,
                   runsLeft, pool, undeletable, probe, tbl, view>>
    /\ UNCHANGED <<folder, entries, fs, lib, dup, result, scansLeft, dlgLeft>>

\* incremental_worker, lines 733-747: the loop is over
IncDone(w) ==
    /\ w \in DOMAIN incs
    /\ incs[w].pc = "loop"
    /\ incs[w].todo = <<>>
    /\ incs' = [incs EXCEPT ![w].pc = "done"]
    /\ UNCHANGED <<disk, files, texts, tx, run, task, hist, snap, quiet, envLeft,
                   runsLeft, pool, undeletable, probe, tbl, view>>
    /\ UNCHANGED <<folder, entries, fs, uiq, lib, dup, result, scansLeft, dlgLeft>>

\* add_row_to_tree, lines 721-731, run by the UI thread: it reads the
\* variables of the worker's loop as they are when it runs
AddRow ==
    /\ uiq # <<>>
    /\ LET me == incs[Head(uiq).w] IN
       entries' = Append(entries, Entry(me.sp, me.fh, me.size))
    /\ uiq' = Tail(uiq)
    /\ UNCHANGED <<disk, files, texts, tx, run, task, hist, snap, quiet, envLeft,
                   runsLeft, pool, undeletable, probe, tbl, view>>
    /\ UNCHANGED <<folder, fs, incs, lib, dup, result, scansLeft, dlgLeft>>

\* --------------------------------- renamer/gui.py: the duplicate dialogs
Closed == [open |-> FALSE, items |-> <<>>]

NoResult == [op |-> "none"]

\* check_library_duplicates, lines 323-327: fingerprint -> the last local
\* entry that has it
RECURSIVE LocalHashes(_, _, _)
LocalHashes(es, i, acc) ==
    IF i > Len(es) THEN acc
    ELSE LocalHashes(es, i + 1,
                     IF es[i].fh # None THEN DictPut(acc, es[i].fh, es[i].orig)
                     ELSE acc)

\* lines 346-348: the two paths are one path
SamePathExact(p1, p2) == p1 = p2

SamePath(p1, p2) == Lower(normpath(p1)) = Lower(normpath(p2))

\* lines 340-349: the rows with the fingerprint at another path
Remotes(f, fh, local_path) ==
    LET matches == find_files_by_hash(f, fh)
        idx == SelectSeq([i \in DOMAIN matches |-> i],
                         LAMBDA i : ~SamePath(matches[i].path, local_path))
    IN  [i \in DOMAIN idx |-> matches[idx[i]].path]

\* lines 333-352
RECURSIVE DuplicatesFound(_, _, _, _)
DuplicatesFound(f, lh, i, acc) ==
    IF i > Len(lh) THEN acc
    ELSE LET remotes == Remotes(f, lh[i].k, lh[i].v) IN
         DuplicatesFound(f, lh, i + 1,
             IF remotes # <<>>
             THEN Append(acc, [local |-> lh[i].v, remotes |-> remotes])
             ELSE acc)

\* check_library_duplicates, lines 323-358: nothing to show without a local
\* fingerprint or without a conflict
duplicates_found(es, f) ==
    LET lh == LocalHashes(es, 1, <<>>) IN
    IF lh = <<>> THEN <<>> ELSE DuplicatesFound(f, lh, 1, <<>>)

\* lines 387-410: actions[local_p] = (StringVar('keep_remote'), remotes)
RECURSIVE LibActions(_, _, _)
LibActions(found, i, acc) ==
    IF i > Len(found) THEN acc
    ELSE LibActions(found, i + 1,
             DictPut(acc, found[i].local,
                     [choice |-> "keep_remote", remotes |-> found[i].remotes]))

\* the button "Biblioteca": check_library_duplicates up to the dialog
OpenLib ==
    /\ dlgLeft > 0
    /\ ~lib.open
    /\ dlgLeft' = dlgLeft - 1
    /\ LET found == duplicates_found(entries, files)
       IN  lib' = IF found = <<>> THEN Closed
                  ELSE [open |-> TRUE, items |-> LibActions(found, 1, <<>>)]
    /\ UNCHANGED <<disk, files, texts, tx, run, task, hist, snap, quiet, envLeft,
                   runsLeft, pool, undeletable, probe, tbl, view>>
    /\ UNCHANGED <<folder, entries, fs, incs, uiq, dup, result, scansLeft>>

\* os.remove: the file is unlinked, or OSError is raised
os_remove(d, und, p) ==
    IF path_exists(d, p) /\ normpath(p) \notin und
    THEN [disk |-> [d EXCEPT ![normpath(p)] = NoFile], raised |-> FALSE]
    ELSE [disk |-> d, raised |-> TRUE]

\* one deletion of a handler with the try left after the first error
RECURSIVE DeleteUntilError(_, _, _, _, _)
DeleteUntilError(d, und, ts, i, acc) ==
    IF i > Len(ts) THEN [acc EXCEPT !.disk = d]
    ELSE IF ~path_exists(d, ts[i].path)
    THEN DeleteUntilError(d, und, ts, i + 1, acc)
    ELSE LET r == os_remove(d, und, ts[i].path) IN
         IF r.raised
         THEN [acc EXCEPT !.disk = d, !.errors = Append(acc.errors, ts[i].path)]
         ELSE DeleteUntilError(r.disk, und, ts, i + 1,
                  [acc EXCEPT !.deleted = Append(acc.deleted, ts[i])])

\* the deletions without the test of os.path.exists
RECURSIVE DeleteUnguarded(_, _, _, _, _)
DeleteUnguarded(d, und, ts, i, acc) ==
    IF i > Len(ts) THEN [acc EXCEPT !.disk = d]
    ELSE LET r == os_remove(d, und, ts[i].path) IN
         DeleteUnguarded(r.disk, und, ts, i + 1,
             IF r.raised
             THEN [acc EXCEPT !.errors = Append(acc.errors, ts[i].path)]
             ELSE [acc EXCEPT !.deleted = Append(acc.deleted, ts[i])])

\* apply, lines 427-448, and on_apply, lines 1247-1253: each path in turn,
\* try: if os.path.exists(p): os.remove(p) except: errors.append
RECURSIVE DeleteAll(_, _, _, _, _)
DeleteAll(d, und, ts, i, acc) ==
    IF i > Len(ts) THEN [acc EXCEPT !.disk = d]
    ELSE IF ~path_exists(d, ts[i].path)
    THEN DeleteAll(d, und, ts, i + 1, acc)
    ELSE LET r == os_remove(d, und, ts[i].path) IN
         DeleteAll(r.disk, und, ts, i + 1,
             IF r.raised
             THEN [acc EXCEPT !.errors = Append(acc.errors, ts[i].path)]
             ELSE [acc EXCEPT !.deleted = Append(acc.deleted, ts[i])])

\* the catalog with the records of the deleted files removed
CatalogPruned(f, deleted) ==
    [p \in DOMAIN f |->
        IF \E i \in DOMAIN deleted : normpath(deleted[i].path) = p THEN NoRow ELSE f[p]]

\* apply and on_apply hold no statement on the catalog: the records of the
\* files they delete stay
CatalogAfter(f, deleted) == f

NoneDeleted == [disk |-> <<>>, errors |-> <<>>, deleted |-> <<>>]

Target(path, kind) == [path |-> path, kind |-> kind]

\* apply, lines 427-448: the paths the choices delete, in the order of the loop
RECURSIVE LibTargets(_, _, _)
LibTargets(items, choice, i) ==
    IF i > Len(items) THEN <<>>
    ELSE (CASE choice[i] = "keep_remote" -> <<Target(items[i].k, "local")>>
            [] choice[i] = "keep_local" ->
                 [j \in DOMAIN items[i].v.remotes |->
                     Target(items[i].v.remotes[j], "remote")]
            [] OTHER -> <<>>)
         \o LibTargets(items, choice, i + 1)

Choices == {"keep_both", "keep_local", "keep_remote"}

\* "Aplicar acciones": apply, lines 422-461, with the radio buttons as the
\* user left them
ApplyLib(choice) ==
    /\ lib.open
    /\ choice \in [DOMAIN lib.items -> Choices]
    /\ LET ts == LibTargets(lib.items, choice, 1)
           r == DeleteAll(disk, undeletable, ts, 1, NoneDeleted)
       IN  /\ disk' = r.disk
           /\ result' = [op |-> "apply", before |-> disk, targets |-> ts,
                         errors |-> r.errors, deleted |-> r.deleted,
                         after |-> r.disk, items |-> lib.items]
           /\ quiet' = IF r.deleted # <<>> THEN FALSE ELSE quiet
           /\ IF r.deleted # <<>> \/ r.errors # <<>>
              THEN DoScan
              ELSE UNCHANGED <<entries, fs, incs>>
           /\ files' = CatalogAfter(files, r.deleted)
    /\ lib' = Closed
    /\ UNCHANGED <<texts, tx, run, task, hist, snap, envLeft,
                   runsLeft, pool, undeletable, probe, tbl, view>>
    /\ UNCHANGED <<folder, uiq, dup, scansLeft, dlgLeft>>

\* "Cancelar": dlg.destroy
CancelLib ==
    /\ lib.open
    /\ lib' = Closed
    /\ UNCHANGED <<disk, files, texts, tx, run, task, hist, snap, quiet, envLeft,
                   runsLeft, pool, undeletable, probe, tbl, view>>
    /\ UNCHANGED <<folder, entries, fs, incs, uiq, dup, result, scansLeft, dlgLeft>>

\* delete_duplicates, lines 1151-1155
RECURSIVE Groups(_, _, _)
Groups(es, i, acc) ==
    IF i > Len(es) THEN acc
    ELSE Groups(es, i + 1,
                IF es[i].fh = None THEN acc
                ELSE DictAppend(acc, es[i].fh, [orig |-> es[i].orig, sz |-> es[i].sz]))

\* every fingerprint is a group
DupGroupsOfAny(groups) == groups

\* line 1156: {h: items for h, items in groups.items() if len(items) > 1}
DupGroups(groups) == SelectSeq(groups, LAMBDA g : Len(g.v) > 1)

\* lines 1213-1219: the first of the longest file names
BestIdx(valid) ==
    CHOOSE i \in DOMAIN valid :
        /\ \A j \in DOMAIN valid : Len(basename(valid[j].orig)) <= Len(basename(valid[i].orig))
        /\ \A j \in 1..(i - 1) : Len(basename(valid[j].orig)) < Len(basename(valid[i].orig))

\* lines 1191-1224: delete_vars[p] = BooleanVar(idx != best_idx)
RECURSIVE PutVars(_, _, _)
PutVars(valid, j, acc) ==
    IF j > Len(valid) THEN acc
    ELSE PutVars(valid, j + 1, DictPut(acc, valid[j].orig, j # BestIdx(valid)))

RECURSIVE DeleteVars(_, _, _, _)
DeleteVars(d, groups, i, acc) ==
    IF i > Len(groups) THEN acc
    ELSE LET valid == SelectSeq(groups[i].v, LAMBDA it : path_exists(d, it.orig))
         IN  DeleteVars(d, groups, i + 1,
                        IF valid = <<>> THEN acc ELSE PutVars(valid, 1, acc))

\* lines 1203-1206: valid_items of each group, the members that exist
ValidItems(d, groups) ==
    [i \in DOMAIN groups |->
        SelectSeq(groups[i].v, LAMBDA it : path_exists(d, it.orig))]

\* the button "Duplicados": delete_duplicates up to the dialog
OpenDup ==
    /\ dlgLeft > 0
    /\ ~dup.open
    /\ dlgLeft' = dlgLeft - 1
    /\ LET dup_groups == DupGroups(Groups(entries, 1, <<>>)) IN
       dup' = IF dup_groups = <<>> THEN Closed
                 ELSE [open |-> TRUE, items |-> DeleteVars(disk, dup_groups, 1, <<>>),
                       valid |-> ValidItems(disk, dup_groups),
                       groups |-> dup_groups]
    /\ UNCHANGED <<disk, files, texts, tx, run, task, hist, snap, quiet, envLeft,
                   runsLeft, pool, undeletable, probe, tbl, view>>
    /\ UNCHANGED <<folder, entries, fs, incs, uiq, lib, result, scansLeft>>

\* "Eliminar seleccionados": on_apply, lines 1236-1263, with the check boxes
\* as the user left them and the answer to askyesno
ApplyDup(checked, yes) ==
    /\ dup.open
    /\ checked \in [DOMAIN dup.items -> BOOLEAN]
    /\ LET sel == SelectSeq([i \in DOMAIN dup.items |-> i], LAMBDA i : checked[i])
           ts == [i \in DOMAIN sel |-> Target(dup.items[sel[i]].k, "dup")]
           r == DeleteAll(disk, undeletable, ts, 1, NoneDeleted)
       IN  IF ts = <<>> \/ ~yes
           THEN UNCHANGED <<disk, files, result, quiet, entries, fs, incs, dup>>
           ELSE /\ disk' = r.disk
                /\ files' = CatalogAfter(files, r.deleted)
                /\ result' = [op |-> "apply", before |-> disk, targets |-> ts,
                              errors |-> r.errors, deleted |-> r.deleted,
                              after |-> r.disk]
                /\ quiet' = IF r.deleted # <<>> THEN FALSE ELSE quiet
                /\ IF r.deleted # <<>>
                   THEN DoScan
                   ELSE UNCHANGED <<entries, fs, incs>>
                /\ dup' = Closed
    /\ UNCHANGED <<texts, tx, run, task, hist, snap, envLeft,
                   runsLeft, pool, undeletable, probe, tbl, view>>
    /\ UNCHANGED <<folder, uiq, lib, scansLeft, dlgLeft>>

\* on_cancel
CancelDup ==
    /\ dup.open
    /\ dup' = Closed
    /\ UNCHANGED <<disk, files, texts, tx, run, task, hist, snap, quiet, envLeft,
                   runsLeft, pool, undeletable, probe, tbl, view>>
    /\ UNCHANGED <<folder, entries, fs, incs, uiq, lib, result, scansLeft, dlgLeft>>

\* ------------------------------------------------- initial states and steps
InitDisk ==
    [p \in FilePaths |->
        [content |-> IF p = pRbb THEN cTwo ELSE cOne, mtime |-> 1,
         readable |-> TRUE]]

NoProbe == [op |-> "none"]

\* no connection is open on the table of rows
TblWorkers == {"w1", "w2"}

\* the window before its first scan
NoView == [app |-> "gui", entries |-> <<>>, tree |-> <<>>, next_iid |-> 0,
           alive |-> FALSE, todo |-> <<>>, q |-> <<>>, scans |-> 0]

NoTbl == [rows |-> {}, conn |-> [w \in TblWorkers |-> [pc |-> "idle"]],
          done |-> 0, raced |-> FALSE]

\* the GUI as constructed: no folder scanned, no dialog
GuiIdle ==
    /\ entries = <<>>
    /\ fs = NoFs
    /\ incs = <<>>
    /\ uiq = <<>>
    /\ lib = Closed
    /\ dup = Closed
    /\ result = NoResult

Init ==
    /\ disk \in {[InitDisk EXCEPT ![pRbb] = NoFile, ![pLa] = NoFile],
                 [InitDisk EXCEPT ![pRbb] = NoFile, ![pLa] = NoFile,
                                  ![pRA].readable = FALSE]}
    /\ files = [p \in FilePaths |-> NoRow]
    /\ texts = {}
    /\ tx = NoTx
    /\ run = [active |-> FALSE, root |-> RootR, force |-> FALSE, ended |-> "no"]
    /\ task = [p \in FilePaths |-> NoTask]
    /\ hist = [kind |-> "no", root |-> RootR, force |-> FALSE,
               out |-> [p \in FilePaths |-> "none"], quiet |-> FALSE]
    /\ snap = [files |-> files, texts |-> texts]
    /\ quiet = FALSE
    /\ envLeft = MaxEnv
    /\ runsLeft = MaxRuns
    /\ pool = Workers
    /\ undeletable = {}
    /\ probe = NoProbe
    /\ tbl = NoTbl
    /\ view = NoView
    /\ folder = RootR
    /\ GuiIdle
    /\ scansLeft = 0
    /\ dlgLeft = 0

Next ==
    \/ \E root \in Roots, force \in BOOLEAN : StartRun(root, force)
    \/ \E p \in FilePaths : CheckStale(p)
    \/ \E p \in FilePaths : HashFile(p)
    \/ \E p \in FilePaths : ExtractFile(p)
    \/ \E p \in FilePaths : WriteRow(p)
    \/ \E p \in FilePaths : InsertTextsAndCommit(p)
    \/ \E p \in FilePaths : PersistFail(p)
    \/ FinishRun
    \/ Interrupt
    \/ \E p \in FilePaths, c \in Contents, dt \in 1..TolHalfSeconds : EnvWrite(p, c, dt)
    \/ \E p \in FilePaths : EnvDelete(p)
    \/ \E p \in FilePaths : EnvChmod(p)

Spec == Init /\ [][Next]_vars

\* the catalog after index_file has indexed the files ps of the tree d, one
\* after the other
RECURSIVE IndexAll(_, _, _, _)
IndexAll(d, ps, i, cat) ==
    IF i > Len(ps) THEN cat
    ELSE LET p == ps[i]
             parts == extract_text_for_index(d, p)
         IN  IndexAll(d, ps, i + 1,
                 [files |-> InsertOrReplace(cat.files, p, SizeOf(d[p].content),
                                d[p].mtime, file_sha256(d, p),
                                Cardinality(BlockRows(0, parts, p))),
                  texts |-> cat.texts \cup
                                BlockRows(MaxRowId(cat.files) + 1, parts, p)])

\* two copies of one content in R and a third in L
GuiDisk == [InitDisk EXCEPT ![pRbb] = NoFile]

EmptyCatalog == [files |-> [p \in FilePaths |-> NoRow], texts |-> {}]

\* the GUI in use on a tree with duplicates: the catalog is new, or the
\* indexer has been run on R, or on R and on L
InitGui ==
    /\ disk = GuiDisk
    /\ \E cat \in {EmptyCatalog,
                    IndexAll(GuiDisk, <<pRA, pRa, pLa>>, 1, EmptyCatalog)} :
          /\ files = cat.files
          /\ texts = cat.texts
    /\ tx = NoTx
    /\ run = [active |-> FALSE, root |-> RootR, force |-> FALSE, ended |-> "no"]
    /\ task = [p \in FilePaths |-> NoTask]
    /\ hist = [kind |-> "no", root |-> RootR, force |-> FALSE,
               out |-> [p \in FilePaths |-> "none"], quiet |-> FALSE]
    /\ snap = [files |-> files, texts |-> texts]
    /\ quiet = FALSE
    /\ envLeft = GuiEnv
    /\ runsLeft = GuiRuns
    /\ pool = 1
    /\ undeletable = {pRA}
    /\ probe = NoProbe
    /\ tbl = NoTbl
    /\ view = NoView
    /\ folder \in {RootL, DottedR}
    /\ GuiIdle
    /\ scansLeft = MaxScans
    /\ dlgLeft = MaxDialogs

\* the steps of the GUI and of what runs next to it: the indexer on the
\* folder L, and another program that rewrites or removes the file of L
NextGui ==
    \/ StartRun(RootL, FALSE)
    \/ \E p \in FilePaths : CheckStale(p)
    \/ \E p \in FilePaths : HashFile(p)
    \/ \E p \in FilePaths : ExtractFile(p)
    \/ \E p \in FilePaths : WriteRow(p)
    \/ \E p \in FilePaths : InsertTextsAndCommit(p)
    \/ FinishRun
    \/ \E c \in {cOne, cBig} : EnvWrite(pLa, c, TolHalfSeconds)
    \/ EnvDelete(pLa)
    \/ Scan
    \/ FsStep
    \/ FsDone
    \/ \E w \in DOMAIN incs : IncBegin(w)
    \/ \E w \in DOMAIN incs, ok \in BOOLEAN : IncStep(w, ok)
    \/ \E w \in DOMAIN incs : IncDone(w)
    \/ AddRow
    \/ OpenLib
    \/ \E choice \in [DOMAIN lib.items -> Choices] : ApplyLib(choice)
    \/ CancelLib
    \/ OpenDup
    \/ \E checked \in [DOMAIN dup.items -> BOOLEAN], yes \in BOOLEAN :
          ApplyDup(checked, yes)
    \/ CancelDup

SpecGui == InitGui /\ [][NextGui]_vars

\* ------------------------------------------- the functions on their inputs
\* scripts/check_hashes.py, lines 11-22: the files of the folder that can be
\* read, by fingerprint
RECURSIVE hash_map(_, _, _, _)
hash_map(d, ls, i, acc) ==
    IF i > Len(ls) THEN acc
    ELSE hash_map(d, ls, i + 1,
             IF path_exists(d, ls[i]) /\ file_sha256(d, normpath(ls[i])) # None
             THEN DictAppend(acc, file_sha256(d, normpath(ls[i])), ls[i])
             ELSE acc)

\* scripts/check_hashes.py, lines 24-31: the groups printed
check_hashes(d, fold) ==
    LET all == hash_map(d, Listing(fold), 1, <<>>) IN
    SelectSeq(all, LAMBDA g : Len(g.v) > 1)

Fingerprints == {None, Digest(cOne), Digest(cTwo)}

\* the entries a scan can leave in the list
EntryInputs ==
    {Entry(o, fh, 5) : o \in {pRa, pRA, pDa, pLa}, fh \in Fingerprints}

GroupInputs ==
    {Entry(o, fh, 5) : o \in {pRa, pRA, pRbb}, fh \in Fingerprints}

\* sequences of at most n elements of S
SeqsUpTo(S, n) == UNION {[1..k -> S] : k \in 0..n}

\* the catalogs with the given fingerprint (or no row) at each path
CatalogOf(shas) ==
    LET ps == SortPaths({p \in FilePaths : shas[p] # <<"no row">>}) IN
    [p \in FilePaths |->
        IF shas[p] = <<"no row">> THEN NoRow
        ELSE [id |-> CHOOSE i \in DOMAIN ps : ps[i] = p, size |-> 5, mtime |-> 1,
              sha |-> shas[p], nb |-> 0]]

CatalogInputs ==
    {CatalogOf(shas) : shas \in [FilePaths -> {<<"no row">>, Digest(cOne), Digest(cTwo)}]}

RowInputs == {NoRow} \cup
    {[id |-> 1, size |-> s, mtime |-> t, sha |-> None, nb |-> 0] :
        s \in {5, 7}, t \in 0..MaxMtime}

\* the skip test of the indexer and of the incremental pass on one input
ProbeStale(row, size, mtime, force) ==
    /\ probe = NoProbe
    /\ probe' = [op |-> "stale", row |-> row, size |-> size, mtime |-> mtime,
                 force |-> force,
                 skipped |-> Skips(row, force, size, mtime),
                 stale |-> isStale(row, size, mtime),
                 guiSkipped |-> GuiUnchanged(row, size, mtime)]
    /\ UNCHANGED <<disk, files, texts, tx, run, task, hist, snap, quiet, envLeft,
                   runsLeft, pool, undeletable, tbl, view, guiVars>>

\* the groups of delete_duplicates for a list of entries
ProbeGroups(es) ==
    /\ probe = NoProbe
    /\ probe' = [op |-> "groups", entries |-> es,
                 groups |-> DupGroups(Groups(es, 1, <<>>))]
    /\ UNCHANGED <<disk, files, texts, tx, run, task, hist, snap, quiet, envLeft,
                   runsLeft, pool, undeletable, tbl, view, guiVars>>

\* the groups of check_hashes.py for the folder R of a tree
ProbeCheckHashes(d) ==
    /\ probe = NoProbe
    /\ probe' = [op |-> "check_hashes", disk |-> d,
                 groups |-> check_hashes(d, RootR)]
    /\ UNCHANGED <<disk, files, texts, tx, run, task, hist, snap, quiet, envLeft,
                   runsLeft, pool, undeletable, tbl, view, guiVars>>

\* the conflicts of check_library_duplicates for entries and a catalog
ProbeLibrary(es, f) ==
    /\ probe = NoProbe
    /\ probe' = [op |-> "library", entries |-> es, files |-> f,
                 found |-> duplicates_found(es, f)]
    /\ UNCHANGED <<disk, files, texts, tx, run, task, hist, snap, quiet, envLeft,
                   runsLeft, pool, undeletable, tbl, view, guiVars>>

\* the lists of parts an extractor can return: up to MaxRawParts parts,
\* their lengths a pattern of three among empty, one character, the cap and
\* one more than the cap
PartInputs ==
    {[i \in 1..n |-> Text(cBig, i, pat[((i - 1) % 3) + 1])] :
        n \in 0..MaxRawParts,
        pat \in [1..3 -> {0, 1, MaxBlockLen, MaxBlockLen + 1}]}

\* the rows of texts index_file writes for the parts of a file (lines 203-220)
ProbeBlocks(parts) ==
    /\ probe = NoProbe
    /\ probe' = [op |-> "blocks", parts |-> parts,
                 rows |-> BlockRows(1, FirstParts(parts), pRa)]
    /\ UNCHANGED <<disk, files, texts, tx, run, task, hist, snap, quiet, envLeft,
                   runsLeft, pool, undeletable, tbl, view, guiVars>>

\* the folders given to the listing: the two roots, a spelling of one with
\* dots, a folder named "_" and a path that is the beginning of a file name
FolderInputs == {RootR, RootL, DottedR, <<"/", "_">>, <<"/", "R", "/", "b">>}

\* the rows of a folder as scan and its incremental pass read them
ProbeList(fold, f) ==
    /\ probe = NoProbe
    /\ probe' = [op |-> "list", folder |-> fold, files |-> f,
                 rows |-> files_in_folder(f, fold),
                 db_map |-> db_map(f, normpath(fold))]
    /\ UNCHANGED <<disk, files, texts, tx, run, task, hist, snap, quiet, envLeft,
                   runsLeft, pool, undeletable, tbl, view, guiVars>>

\* ------------------------------------------------------ rename_app.py
\* scan, line 385: an entry of the list has six fields
AppEntry(orig, fh, sz) == <<orig, "new", fh, sz, "title", "author">>

\* the entries a scan of rename_app.py can leave in the list; the size 0 is
\* the empty file and stands for size_val None (the stat failed) as well:
\* "if sz and ..." at line 587 takes the two alike
AppEntryInputs ==
    {AppEntry(o, fh, sz) : o \in {pRa, pRA, pRbb}, fh \in {None, Digest(cOne)},
                           sz \in {0, 5}}

\* delete_duplicates, lines 548-552: "for orig, new, fh, sz in self.entries"
\* raises ValueError on an entry that has not four fields
RECURSIVE AppGroups(_, _, _)
AppGroups(es, i, acc) ==
    IF i > Len(es) THEN [raised |-> FALSE, groups |-> acc]
    ELSE IF Len(es[i]) # 4 THEN [raised |-> TRUE, groups |-> <<>>]
    ELSE AppGroups(es, i + 1,
                   IF es[i][3] = None THEN acc
                   ELSE DictAppend(acc, es[i][3], [orig |-> es[i][1], sz |-> es[i][4]]))

\* lines 583-590: max_idx, the first member of the largest size, the first
\* member when no size is known (positions count from 1 here)
RECURSIVE MaxIdx(_, _, _, _)
MaxIdx(items, idx, max_size, max_idx) ==
    IF idx > Len(items) THEN max_idx
    ELSE IF items[idx].sz # 0 /\ items[idx].sz > max_size
         THEN MaxIdx(items, idx + 1, items[idx].sz, idx)
         ELSE MaxIdx(items, idx + 1, max_size, max_idx)

\* delete_duplicates of rename_app.py up to its dialog, lines 546-595
AppDeleteDuplicates(es) ==
    LET g == AppGroups(es, 1, <<>>) IN
    IF g.raised THEN [raised |-> TRUE, groups |-> <<>>, keep |-> <<>>]
    ELSE LET dup_groups == DupGroups(g.groups) IN
         [raised |-> FALSE, groups |-> dup_groups,
          keep |-> [i \in DOMAIN dup_groups |-> MaxIdx(dup_groups[i].v, 1, -1, 1)]]

\* the button "Eliminar duplicados" of rename_app.py on a list of entries
ProbeSizeKeep(es) ==
    /\ probe = NoProbe
    /\ probe' = [op |-> "size_keep", entries |-> es,
                 dialog |-> AppDeleteDuplicates(es)]
    /\ UNCHANGED <<disk, files, texts, tx, run, task, hist, snap, quiet, envLeft,
                   runsLeft, pool, undeletable, tbl, view, guiVars>>

DiskInputs ==
    [FilePaths -> {NoFile,
                   [content |-> cOne, mtime |-> 1, readable |-> TRUE],
                   [content |-> cOne, mtime |-> 1, readable |-> FALSE],
                   [content |-> cTwo, mtime |-> 1, readable |-> TRUE]}]

\* the inputs still to be drawn: one input in a behaviour
Ask(S) == IF probe = NoProbe THEN S ELSE {}

NextPure ==
    \/ \E row \in Ask(RowInputs), size \in {5, 7}, mtime \in 0..MaxMtime, force \in BOOLEAN :
          ProbeStale(row, size, mtime, force)
    \/ \E es \in Ask(SeqsUpTo(GroupInputs, MaxEntries)) : ProbeGroups(es)
    \/ \E d \in Ask(DiskInputs) : ProbeCheckHashes(d)
    \/ \E es \in Ask(SeqsUpTo(EntryInputs, MaxLocal)), f \in CatalogInputs :
          ProbeLibrary(es, f)
    \/ \E fold \in Ask(FolderInputs), f \in CatalogInputs : ProbeList(fold, f)
    \/ \E es \in Ask(SeqsUpTo(AppEntryInputs, MaxEntries)) : ProbeSizeKeep(es)
    \/ \E parts \in Ask(PartInputs) : ProbeBlocks(parts)

SpecPure == Init /\ [][NextPure]_vars

\* the steps of a run, without its interruption
RunStep ==
    \/ \E p \in FilePaths : CheckStale(p)
    \/ \E p \in FilePaths : HashFile(p)
    \/ \E p \in FilePaths : ExtractFile(p)
    \/ \E p \in FilePaths : WriteRow(p)
    \/ \E p \in FilePaths : InsertTextsAndCommit(p)
    \/ \E p \in FilePaths : PersistFail(p)
    \/ FinishRun

\* ------------------------------------------------------------- the claims
NotProcessed == {"none", "unseen", "skipped"}

TextsOf(tt, p) == {t \in tt : t.src = p}

\* the run in progress (or the last one) follows a run of the given ending on
\* the same root, neither run is forced, and since the earlier run started
\* nothing but the indexer has touched the tree or the catalog
RerunAfter(kind) ==
    /\ hist.kind = kind
    /\ hist.root = run.root
    /\ ~hist.force
    /\ ~run.force
    /\ hist.quiet
    /\ quiet

\* C1 as stated: the second run on the unchanged tree processes no file and
\* leaves the catalog as it was
C1_SecondRunSkipsAll ==
    RerunAfter("completed") =>
        /\ \A p \in FilePaths : task[p].pc \in NotProcessed
        /\ files = snap.files
        /\ texts = snap.texts

\* C1 amended: the second run on the unchanged tree skips every file the
\* first run skipped or upserted, processes only files that failed in the
\* first run, and leaves the record and the blocks of every other file as
\* they were
C1_SecondRunSkipsCommitted ==
    RerunAfter("completed") =>
        \A p \in FilePaths :
            /\ task[p].pc \notin NotProcessed => hist.out[p] = "failed"
            /\ (run.ended = "completed" /\ hist.out[p] \in {"skipped", "indexed"})
                  => task[p].pc = "skipped"
            /\ hist.out[p] # "failed" =>
                  /\ files[p] = snap.files[p]
                  /\ TextsOf(texts, p) = TextsOf(snap.texts, p)

C1_Witness ==
    /\ RerunAfter("completed")
    /\ run.ended = "completed"
    /\ \E p, q \in FilePaths :
          /\ hist.out[p] = "indexed" /\ task[p].pc = "skipped"
          /\ hist.out[q] = "failed" /\ task[q].pc = "indexed"

\* the blocks attached to the row of p are the blocks its indexing pass wrote
CompleteRow(p) ==
    LET blocks == {t \in texts : t.file_id = files[p].id} IN
    /\ Cardinality(blocks) = files[p].nb
    /\ {t.block_index : t \in blocks} = 0..(files[p].nb - 1)

\* C3: whenever a run is interrupted, every committed record has all its
\* blocks and no uncommitted write is in the catalog; a later non-forced run on
\* the unchanged tree skips the files whose upsert committed and processes the
\* files that have no committed record
C3_Restartable ==
    /\ \A p \in FilePaths : files[p] # NoRow => CompleteRow(p)
    /\ RerunAfter("interrupted") =>
          \A p \in FilePaths :
              /\ hist.out[p] \in {"skipped", "indexed"} => task[p].pc \in NotProcessed
              /\ snap.files[p] = NoRow => task[p].pc # "skipped"
              /\ run.ended = "completed" =>
                    /\ hist.out[p] \in {"skipped", "indexed"} => task[p].pc = "skipped"
                    /\ (snap.files[p] = NoRow /\ task[p].pc # "none")
                          => task[p].pc \in {"indexed", "failed"}

C3_Witness ==
    /\ RerunAfter("interrupted")
    /\ run.ended = "completed"
    /\ \E p, q \in FilePaths :
          /\ hist.out[p] = "indexed" /\ task[p].pc = "skipped"
          /\ hist.out[q] = "none" /\ task[q].pc = "indexed"
          /\ files[q] # NoRow /\ files[q].nb > 0

\* C4 as stated: at the end of a run every file whose stat, hashing,
\* extraction or persistence failed is recorded as failed, so a file counted
\* as indexed has a fingerprint and its extraction succeeded
C4_FailingFilesAreFailed ==
    run.ended = "completed" =>
        \A p \in FilePaths :
            task[p].pc = "indexed" => (task[p].sha # None /\ task[p].parts # <<>>)

\* C4 amended: no failure of a file stops the run: while the run is active a
\* step of it is possible, it ends only completed (or interrupted from
\* outside), and then every enumerated file is skipped or upserted, with a
\* record in the catalog, or reported as failed (stat or persistence); a file
\* whose hashing or extraction failed is still upserted
C4_FailuresNeverAbort ==
    /\ run.active => ENABLED RunStep
    /\ (~run.active /\ run.ended \notin {"no", "interrupted"}) =>
          /\ run.ended = "completed"
          /\ \A p \in Enumerated :
                /\ task[p].pc \in Terminal
                /\ task[p].pc \in {"skipped", "indexed"} => files[p] # NoRow

C4_Witness ==
    /\ run.ended = "completed"
    /\ \E p, q \in FilePaths :
          /\ task[p].pc = "failed"
          /\ task[q].pc = "indexed" /\ task[q].sha = None /\ files[q].sha = None

\* the difference of the stored and the current modification time reaches 1.0 s
FarApart(row, mtime) ==
    \/ row.mtime - mtime >= TolHalfSeconds
    \/ mtime - row.mtime >= TolHalfSeconds

\* C2: a file is stale when no record exists for its path, when the stored
\* size differs from its size, or when the stored and the current
\* modification times are 1.0 s or more apart, and in no other case; the
\* indexer (when not forced) and the incremental pass skip exactly the files
\* that are not stale
C2_StalenessDecision ==
    probe.op = "stale" =>
        LET expected == \/ probe.row = NoRow
                        \/ probe.row.size # probe.size
                        \/ FarApart(probe.row, probe.mtime)
        IN  /\ probe.stale <=> expected
            /\ probe.skipped <=> (~probe.force /\ ~expected)
            /\ probe.guiSkipped <=> ~expected

C2_Witness ==
    /\ probe.op = "stale"
    /\ probe.row # NoRow
    /\ probe.row.size = probe.size
    /\ probe.mtime - probe.row.mtime = TolHalfSeconds
    /\ ~probe.force
    /\ probe.stale
    /\ ~probe.skipped
    /\ ~probe.guiSkipped

\* the members of the fingerprint class fh of the entries, in their order
MembersOf(es, fh) ==
    LET idx == SelectSeq([i \in DOMAIN es |-> i], LAMBDA i : es[i].fh = fh)
    IN  [j \in DOMAIN idx |-> [orig |-> es[idx[j]].orig, sz |-> es[idx[j]].sz]]

\* the files of the folder R that can be read and have the fingerprint
ReadableWith(d, fh) ==
    {p \in FilePaths : UnderRoot(p, RootR) /\ Exists(d, p) /\ d[p].readable
                       /\ Digest(d[p].content) = fh}

\* C5: the groups of duplicates are exactly the fingerprint classes with a
\* non-null fingerprint and two members or more: a group holds all the
\* entries of its fingerprint, no fingerprint has two groups, and an entry
\* is in a group if and only if its fingerprint is not null and another
\* entry shares it (delete_duplicates on the entries, check_hashes.py on a
\* folder)
C5_GroupsAreClasses ==
    /\ probe.op = "groups" =>
          LET es == probe.entries
              gs == probe.groups
          IN  /\ \A g \in DOMAIN gs :
                    /\ gs[g].k # None
                    /\ Len(gs[g].v) >= 2
                    /\ gs[g].v = MembersOf(es, gs[g].k)
              /\ \A g, h \in DOMAIN gs : gs[g].k = gs[h].k => g = h
              /\ \A i \in DOMAIN es :
                    (\E g \in DOMAIN gs : gs[g].k = es[i].fh) <=>
                    (es[i].fh # None /\ \E j \in DOMAIN es : j # i /\ es[j].fh = es[i].fh)
    /\ probe.op = "check_hashes" =>
          LET d == probe.disk
              gs == probe.groups
          IN  /\ \A g \in DOMAIN gs :
                    /\ gs[g].k # None
                    /\ Len(gs[g].v) >= 2
                    /\ Len(gs[g].v) = Cardinality(ReadableWith(d, gs[g].k))
                    /\ {gs[g].v[i] : i \in DOMAIN gs[g].v} = ReadableWith(d, gs[g].k)
              /\ \A g, h \in DOMAIN gs : gs[g].k = gs[h].k => g = h
              /\ \A c \in Contents :
                    (\E g \in DOMAIN gs : gs[g].k = Digest(c)) <=>
                    Cardinality(ReadableWith(d, Digest(c))) >= 2

C5_Witness ==
    /\ probe.op = "groups"
    /\ probe.entries = <<Entry(pRA, Digest(cOne), 5), Entry(pRa, Digest(cOne), 5),
                         Entry(pRbb, Digest(cTwo), 5)>>
    /\ Len(probe.groups) = 1
    /\ probe.groups[1].v = <<[orig |-> pRA, sz |-> 5], [orig |-> pRa, sz |-> 5]>>

\* the local entries are the records of the catalog (the reference root is
\* the local root) and no two records have one content
OwnCatalogWithoutDuplicates(es, f) ==
    /\ \A i \in DOMAIN es :
          es[i].fh # None =>
             /\ f[normpath(es[i].orig)] # NoRow
             /\ f[normpath(es[i].orig)].sha = es[i].fh
    /\ \A p, q \in FilePaths :
          (p # q /\ f[p] # NoRow /\ f[q] # NoRow) => f[p].sha # f[q].sha

\* C6: a conflict of check_library_duplicates never lists a record whose
\* path equals the local path after normalisation and case folding, every
\* conflict has a remote match (a record of the local entry's fingerprint at
\* another path), and when the catalog is the local root's own and holds
\* every content once there is no conflict
C6_NoSelfMatch ==
    probe.op = "library" =>
        LET es == probe.entries
            f == probe.files
            found == probe.found
        IN  /\ \A c \in DOMAIN found :
                  /\ found[c].remotes # <<>>
                  /\ \A r \in DOMAIN found[c].remotes :
                        LET rp == found[c].remotes[r] IN
                        /\ Lower(normpath(rp)) # Lower(normpath(found[c].local))
                        /\ f[rp] # NoRow
                        /\ \E i \in DOMAIN es :
                              /\ es[i].orig = found[c].local
                              /\ es[i].fh # None
                              /\ es[i].fh = f[rp].sha
            /\ OwnCatalogWithoutDuplicates(es, f) => found = <<>>

C6_Witness ==
    /\ probe.op = "library"
    /\ probe.entries = <<Entry(pDa, Digest(cOne), 5)>>
    /\ probe.files[pRa] # NoRow /\ probe.files[pRa].sha = Digest(cOne)
    /\ probe.files[pRA] # NoRow /\ probe.files[pRA].sha = Digest(cOne)
    /\ probe.files[pLa] # NoRow /\ probe.files[pLa].sha = Digest(cOne)
    /\ probe.found = <<[local |-> pDa, remotes |-> <<pLa>>]>>

\* C7: a path selected for deletion that is not on disk when apply (library
\* conflicts) or on_apply (groups of one folder) runs is passed over: it adds
\* no error and nothing changes for it; a resolution applied again, with
\* all its paths gone, reports no failure
C7_MissingPathIsNoError ==
    result.op = "apply" =>
        /\ \A i \in DOMAIN result.targets :
              ~path_exists(result.before, result.targets[i].path) =>
                 /\ \A e \in DOMAIN result.errors :
                       result.errors[e] # result.targets[i].path
                 /\ \A d \in DOMAIN result.deleted :
                       result.deleted[d].path # result.targets[i].path
                 /\ ~path_exists(result.after, result.targets[i].path)
        /\ (\A i \in DOMAIN result.targets :
               ~path_exists(result.before, result.targets[i].path))
              => (result.errors = <<>> /\ result.after = result.before)

C7_Witness ==
    /\ result.op = "apply"
    /\ result.targets # <<>>
    /\ \A i \in DOMAIN result.targets :
          ~path_exists(result.before, result.targets[i].path)
    /\ result.errors = <<>>
    /\ result.deleted = <<>>

\* the deletion of the target fails: the file is there and cannot be removed
Failing(before, und, t) == path_exists(before, t.path) /\ normpath(t.path) \in und

C9_NoRecordRemoved ==
    [][\A p \in FilePaths : files[p] # NoRow => files'[p] # NoRow]_vars

\* a resolution has deleted one of two duplicate files, a non-forced run of
\* the indexer on its root has completed since, and both records are there
C9_Witness ==
    /\ result.op = "apply"
    /\ run.ended = "completed"
    /\ ~run.force
    /\ quiet
    /\ \E d \in DOMAIN result.deleted :
          LET p == normpath(result.deleted[d].path) IN
          /\ UnderRoot(p, run.root)
          /\ ~Exists(disk, p)
          /\ files[p] # NoRow
          /\ \E q \in FilePaths \ {p} :
                /\ Exists(disk, q)
                /\ files[q] # NoRow
                /\ files[q].sha = files[p].sha

\* C10: in every committed state of the catalog the blocks stored for a file
\* are those written with its record: they are attached to the record and
\* they are as many as the upsert that wrote the record stored
C10_BlocksReplacedWithRecord ==
    \A p \in FilePaths :
        files[p] # NoRow =>
            /\ \A t \in TextsOf(texts, p) : t.file_id = files[p].id
            /\ Cardinality(TextsOf(texts, p)) = files[p].nb

\* ------------------------------------------- the files table, row by row
\* The statements of index_file and of the incremental pass on the table
\* of ensure_db (id INTEGER PRIMARY KEY, path TEXT UNIQUE), two futures of
\* the indexer and the GUI writing to it; a write transaction is one step
\* (sqlite lets one connection write at a time).
MaxId(rows) ==
    IF rows = {} THEN 0
    ELSE CHOOSE n \in {r.id : r \in rows} : \A r \in rows : r.id <= n

SqlRow(id, p, sha) == [id |-> id, path |-> p, sha |-> sha]

\* INSERT into a table whose path column is not UNIQUE
SqlInsert(rows, p, sha) == rows \cup {SqlRow(MaxId(rows) + 1, p, sha)}

\* INSERT OR REPLACE INTO files(path, ...): the UNIQUE conflict on path
\* deletes the row of the path before the row is inserted
SqlInsertOrReplace(rows, p, sha) ==
    {r \in rows : r.path # p} \cup {SqlRow(MaxId(rows) + 1, p, sha)}

\* UPDATE files SET ... WHERE id=?
SqlUpdateById(rows, id, sha) ==
    {IF r.id = id THEN SqlRow(r.id, r.path, sha) ELSE r : r \in rows}

\* SELECT ... FROM files WHERE path=? and fetchone()
SqlSelectByPath(rows, p) ==
    IF \E r \in rows : r.path = p
    THEN CHOOSE r \in rows : r.path = p ELSE NoRow

TblPaths == {pRa, pRA}
TblShas == {None, Digest(cOne)}

\* index_file, lines 169-170
TblSelect(w, p) ==
    /\ tbl.conn[w].pc = "idle"
    /\ tbl.done + Cardinality({v \in TblWorkers : tbl.conn[v].pc # "idle"}) < MaxUpserts
    /\ tbl' = [tbl EXCEPT !.conn[w] =
                 [pc |-> "selected", path |-> p,
                  row |-> SqlSelectByPath(tbl.rows, p)]]
    /\ UNCHANGED <<disk, files, texts, tx, run, task, hist, snap, quiet, envLeft,
                   runsLeft, pool, undeletable, probe, view, guiVars>>

\* index_file, lines 205-221: UPDATE by the id read, or INSERT OR REPLACE
TblWrite(w, sha) ==
    /\ tbl.conn[w].pc = "selected"
    /\ LET c == tbl.conn[w]
       IN  tbl' = [rows |-> IF c.row # NoRow
                            THEN SqlUpdateById(tbl.rows, c.row.id, sha)
                            ELSE SqlInsertOrReplace(tbl.rows, c.path, sha),
                   conn |-> [tbl.conn EXCEPT ![w] = [pc |-> "idle"]],
                   done |-> tbl.done + 1,
                   raced |-> tbl.raced \/
                             (c.row = NoRow /\ \E r \in tbl.rows : r.path = c.path)]
    /\ UNCHANGED <<disk, files, texts, tx, run, task, hist, snap, quiet, envLeft,
                   runsLeft, pool, undeletable, probe, view, guiVars>>

\* gui.py, lines 715-717: INSERT OR REPLACE of the incremental pass
TblGuiWrite(p, sha) ==
    /\ tbl.done + Cardinality({v \in TblWorkers : tbl.conn[v].pc # "idle"}) < MaxUpserts
    /\ tbl' = [tbl EXCEPT !.rows = SqlInsertOrReplace(tbl.rows, p, sha),
                          !.done = tbl.done + 1]
    /\ UNCHANGED <<disk, files, texts, tx, run, task, hist, snap, quiet, envLeft,
                   runsLeft, pool, undeletable, probe, view, guiVars>>

NextTable ==
    \/ \E w \in TblWorkers, p \in TblPaths : TblSelect(w, p)
    \/ \E w \in TblWorkers, sha \in TblShas : TblWrite(w, sha)
    \/ \E p \in TblPaths, sha \in TblShas : TblGuiWrite(p, sha)

SpecTable == Init /\ [][NextTable]_vars

\* C11: whatever the interleaving of the upserts of the indexer's workers
\* and of the GUI's incremental pass, the table holds at most one row per
\* path (and per id): an upsert of an indexed path replaces its row.
C11_OneRecordPerPath ==
    /\ \A r1, r2 \in tbl.rows : (r1.path = r2.path \/ r1.id = r2.id) => r1 = r2
    /\ Cardinality(tbl.rows) <= Cardinality(TblPaths)

\* two connections found no row of /R/a, both inserted, one row is left;
\* the GUI replaced a row too
C11_Witness ==
    /\ tbl.raced
    /\ tbl.done = MaxUpserts
    /\ Cardinality({r \in tbl.rows : r.path = pRa}) = 1
    /\ Cardinality(tbl.rows) = 2
    /\ MaxId(tbl.rows) = MaxUpserts

\* ------------------------------------------------------- hash failures
\* C12: a file whose fingerprint cannot be computed is not given up: its
\* extraction is attempted next, and the row the run commits for it has a
\* null fingerprint and the blocks that were extracted; the run goes on.
C12_HashFailureAbsorbed ==
    [][\A p \in FilePaths :
          /\ (task[p].pc = "hashing" /\ task'[p].pc \notin {"hashing", "none"}) =>
                /\ task'[p].pc = "extracting"
                /\ task'[p].sha = file_sha256(disk, p)
                /\ run'.active
          /\ (task[p].pc = "extracting" /\ task[p].sha = None
                /\ task'[p].pc \notin {"extracting", "none"}) =>
                /\ task'[p].pc = "writing"
                /\ task'[p].parts = extract_text_for_index(disk, p)
          /\ (task[p].pc = "inserting" /\ task[p].sha = None
                /\ task'[p].pc = "indexed") =>
                /\ files'[p] # NoRow
                /\ files'[p].sha = None
                /\ files'[p].size = task[p].size
                /\ TextsOf(texts', p) = BlockRows(files'[p].id, task[p].parts, p)
                /\ run'.active]_vars

\* the fingerprint of /R/A could not be computed, its text could be read a
\* moment later: the row has no fingerprint and one block, the run completed
C12_Witness ==
    /\ run.ended = "completed"
    /\ task[pRA].pc = "indexed"
    /\ task[pRA].sha = None
    /\ files[pRA] # NoRow /\ files[pRA].sha = None /\ files[pRA].nb = 1
    /\ TextsOf(texts, pRA) # {}

C15_RemotesUnderReferenceRoot ==
    probe.op = "library" =>
        \E referenceRoot \in Roots :
            \A c \in DOMAIN probe.found :
                \A r \in DOMAIN probe.found[c].remotes :
                    UnderRoot(probe.found[c].remotes[r], referenceRoot)

\* ------------------------------------------------ the records of a folder
\* C16: the listing of a folder holds a record exactly when the folder is
\* an ancestor of the record's path by whole path segments, in
\* files_in_folder and in the rows the incremental pass reads; a record
\* under a path that only begins like the folder or matches it as a pattern
\* is not listed.
C16_ExactSegmentPrefix ==
    probe.op = "list" =>
        LET under == {p \in FilePaths :
                        /\ probe.files[p] # NoRow
                        /\ UnderRoot(p, normpath(probe.folder))}
        IN  /\ {probe.rows[i].path : i \in DOMAIN probe.rows} = under
            /\ {p \in FilePaths : probe.db_map[p] # NoRow} = under

\* ------------------------------------------------ the default keep choice
\* C17: in the dialog of delete_duplicates every group with a member on
\* disk has exactly one member left unchecked, the first of those with the
\* longest file name among the members on disk; every other member is
\* checked for deletion.
C17_OneKeptByName ==
    dup.open =>
        \A g \in DOMAIN dup.valid :
            LET v == dup.valid[g]
                kept == {i \in DOMAIN v : ~DictGet(dup.items, v[i].orig)}
            IN  v # <<>> =>
                  /\ Cardinality(kept) = 1
                  /\ \A i \in kept :
                        /\ \A j \in DOMAIN v :
                              Len(basename(v[j].orig)) <= Len(basename(v[i].orig))
                        /\ \A j \in 1..(i - 1) :
                              Len(basename(v[j].orig)) < Len(basename(v[i].orig))

\* the entries of the list with the fingerprint
AppMembers(es, fh) == SelectSeq(es, LAMBDA e : e[3] = fh)

\* C18: for every fingerprint that two or more entries of rename_app.py's
\* list share, delete_duplicates shows a group with exactly one member
\* pre-selected to keep: the first of those with the largest size, the first
\* member when no size is known.
C18_OneKeptBySize ==
    probe.op = "size_keep" =>
        LET es == probe.entries
            dlg == probe.dialog
        IN  \A fh \in {es[i][3] : i \in DOMAIN es} \ {None} :
                Len(AppMembers(es, fh)) > 1 =>
                   /\ ~dlg.raised
                   /\ \E g \in DOMAIN dlg.groups :
                         /\ dlg.groups[g].k = fh
                         /\ Len(dlg.groups[g].v) = Len(AppMembers(es, fh))
                         /\ LET v == dlg.groups[g].v
                                k == dlg.keep[g]
                                sized == {j \in DOMAIN v : v[j].sz # 0}
                            IN  /\ k \in DOMAIN v
                                /\ sized = {} => k = 1
                                /\ sized # {} =>
                                      /\ k \in sized
                                      /\ \A j \in sized : v[j].sz <= v[k].sz
                                      /\ \A j \in sized : j < k => v[j].sz < v[k].sz

\* ------------------------------------------------------- forced runs
\* C19: a forced run skips no file: every file it enumerated and could
\* stat goes on to hashing; a run that is not forced skips a file exactly
\* when the staleness oracle says that its row is not stale.
C19_ForceSkipsNone ==
    [][\A p \in FilePaths :
          (task[p].pc = "unseen" /\ task'[p].pc \notin {"unseen", "none"}) =>
              IF ~Exists(disk, p)
              THEN task'[p].pc = "stat_failed"
              ELSE LET size == SizeOf(disk[p].content)
                       mtime == disk[p].mtime
                   IN  /\ task'[p].pc \in {"skipped", "hashing"}
                       /\ run.force => task'[p].pc = "hashing"
                       /\ ~run.force =>
                            (task'[p].pc = "skipped" <=>
                                ~isStale(files[p], size, mtime))]_vars

\* a forced run after a completed run on the unchanged tree has upserted
\* both files again
C19_Witness ==
    /\ run.force /\ run.ended = "completed"
    /\ hist.kind = "completed" /\ hist.root = run.root /\ hist.quiet /\ quiet
    /\ hist.out[pRa] = "indexed" /\ hist.out[pRA] = "indexed"
    /\ task[pRa].pc = "indexed" /\ task[pRA].pc = "indexed"
    /\ \A p \in FilePaths : task[p].pc # "skipped"

\* ------------------------------------------------- failures and reruns
\* C20: a run that is not forced and follows a completed run on the same
\* root does not skip a file that failed in that run: a file whose stat or
\* upsert failed, or a file that was upserted without a fingerprint.
C20_FailuresRetried ==
    (hist.kind = "completed" /\ hist.root = run.root /\ ~run.force) =>
        \A p \in Enumerated :
            (\/ hist.out[p] \in {"failed", "stat_failed"}
             \/ /\ hist.out[p] = "indexed"
                /\ snap.files[p] # NoRow
                /\ snap.files[p].sha = None) =>
                task[p].pc # "skipped"

\* ------------------------------------------- the last copy of a content
\* C21: when apply of the library dialog has deleted a local file (keep the
\* library's copy), one of the remote matches listed for it was on disk when
\* apply started, readable and with the content of the deleted file.
C21_RemoteCopyExists ==
    result.op = "apply" =>
        \A d \in DOMAIN result.deleted :
            result.deleted[d].kind = "local" =>
                LET lp == result.deleted[d].path
                    remotes == DictGet(result.items, lp).remotes
                IN  \E r \in DOMAIN remotes :
                        /\ path_exists(result.before, remotes[r])
                        /\ DiskAt(result.before, remotes[r]).content =
                              DiskAt(result.before, lp).content

\* C22: every group of the dialog of delete_duplicates has at least two
\* distinct paths; in a group with members on disk the member chosen to be
\* kept is not checked for deletion, and some member on disk is left
\* unchecked, so that the default selection leaves a file of the group.
C22_DefaultKeepsOneCopy ==
    dup.open =>
        \A g \in DOMAIN dup.groups :
            LET v == dup.valid[g] IN
            /\ Cardinality({normpath(dup.groups[g].v[i].orig) :
                               i \in DOMAIN dup.groups[g].v}) >= 2
            /\ v # <<>> =>
                  /\ ~DictGet(dup.items, v[BestIdx(v)].orig)
                  /\ \E i \in DOMAIN v : ~DictGet(dup.items, v[i].orig)

\* ---------------------------------------------- the lifecycle of a file
\* the positions a task can take next within its run
Successors(pc) ==
    CASE pc = "unseen" -> {"skipped", "hashing", "stat_failed"}
      [] pc = "hashing" -> {"extracting"}
      [] pc = "extracting" -> {"writing"}
      [] pc = "writing" -> {"inserting", "failed"}
      [] pc = "inserting" -> {"indexed", "failed"}
      [] OTHER -> {}

\* C23: within a run a file goes from unseen through the staleness check to
\* skipped, or to hashing, then extraction, then the upsert, or to failed;
\* a file that is skipped, upserted or failed stays so until the next run
\* starts, a file the run did not enumerate is never taken up, and the
\* fingerprint is there before the extraction and both before the upsert.
C23_Lifecycle ==
    [][runsLeft' = runsLeft =>
          \A p \in FilePaths :
              /\ task'[p].pc # task[p].pc =>
                    \/ task'[p].pc \in Successors(task[p].pc)
                    \/ /\ task'[p].pc = "none"
                       /\ task[p].pc \in InProgress \cup {"unseen"}
                       /\ ~run'.active
              /\ task[p].pc \in Terminal => task'[p] = task[p]
              /\ task'[p].pc \in {"writing", "inserting", "indexed"} =>
                    /\ "sha" \in DOMAIN task'[p]
                    /\ "parts" \in DOMAIN task'[p]
              /\ task'[p].pc = "extracting" => "sha" \in DOMAIN task'[p]]_vars

\* /R/a is upserted while /R/A of the same run is still at its extraction
C23_Witness ==
    /\ run.active
    /\ task[pRa].pc = "indexed"
    /\ task[pRA].pc = "extracting"

\* ------------------------------------------------- concurrent upserts
\* C24: whatever the interleaving of the tasks of a run, the record or the
\* blocks of a path change only in the step that commits the upsert of that
\* path, and they become what the task of that path read and extracted:
\* no task changes what another path's task wrote, and the catalog does not
\* depend on the order of the commits (the ids of new rows aside).
C24_UpsertsIndependent ==
    [][\A q \in FilePaths :
          (files'[q] # files[q] \/ TextsOf(texts', q) # TextsOf(texts, q)) =>
              /\ task[q].pc = "inserting"
              /\ task'[q].pc = "indexed"
              /\ files'[q] # NoRow
              /\ files'[q].size = task[q].size
              /\ files'[q].mtime = task[q].mtime
              /\ files'[q].sha = task[q].sha
              /\ TextsOf(texts', q) = BlockRows(files'[q].id, task[q].parts, q)
              /\ \A r \in FilePaths \ {q} :
                    /\ files'[r] = files[r]
                    /\ TextsOf(texts', r) = TextsOf(texts, r)]_vars

\* two tasks ran side by side, /R/A committed first: /R/a has the second
\* id, each path its own fingerprint and block
C24_Witness ==
    /\ run.active
    /\ task[pRa].pc = "indexed" /\ task[pRA].pc = "indexed"
    /\ files[pRA] # NoRow /\ files[pRa] # NoRow
    /\ files[pRA].id = 1 /\ files[pRa].id = 2
    /\ files[pRa].sha = task[pRa].sha /\ files[pRA].sha = task[pRA].sha
    /\ TextsOf(texts, pRa) = BlockRows(2, task[pRa].parts, pRa)
    /\ TextsOf(texts, pRa) # {}

\* ------------------------------------------------- no orphaned blocks
\* C25: in every state of the catalog, the indexer and the incremental pass
\* of the GUI writing to it in any order, each row of texts carries the id
\* of a row of files, and that row is the record of the file the block was
\* extracted from.
C25_NoOrphanBlocks ==
    \A t \in texts :
        \E p \in FilePaths :
            /\ files[p] # NoRow
            /\ files[p].id = t.file_id
            /\ t.src = p

\* ------------------------------------------------- the connections
\* the connection of the task of a path is open: the task opened one, has
\* not closed it, and the process of the run is alive
ConnOpen(p) ==
    /\ run.active
    /\ "conn" \in DOMAIN task[p]
    /\ task[p].conn = "open"

\* C26: a task that has reached a terminal state - skipped, indexed or
\* failed, by the stat or by an exception - has no open connection, and no
\* connection is open when no run is active.
C26_ConnectionsClosed ==
    \A p \in FilePaths :
        /\ task[p].pc \in Terminal => ~ConnOpen(p)
        /\ ~run.active => ~ConnOpen(p)

\* ------------------------------------------- every local file is reported
\* C27: every displayed local entry that has a fingerprint and for which
\* the catalog holds a record of that fingerprint at another path is the
\* local side of exactly one conflict of check_library_duplicates, also
\* when two local entries have the same fingerprint.
C27_EveryLocalReported ==
    probe.op = "library" =>
        LET es == probe.entries
            f == probe.files
            found == probe.found
        IN  \A i \in DOMAIN es :
               (/\ es[i].fh # None
                /\ \E p \in FilePaths :
                      /\ f[p] # NoRow
                      /\ f[p].sha = es[i].fh
                      /\ ~SamePath(p, es[i].orig)) =>
                   Cardinality({c \in DOMAIN found : found[c].local = es[i].orig}) = 1

\* ------------------------------------------------- one scan at a time
\* the background workers of scan that have not ended: the scan thread and
\* the incremental workers
ScanWorkers ==
    {w \in DOMAIN incs : incs[w].pc # "done"} \cup (IF fs.alive THEN {0} ELSE {})

\* C28: at most one background worker of scan - the scan thread or an
\* incremental worker - is running at any time: a scan asked for while one
\* runs starts no second worker.
C28_OneScanWorker == Cardinality(ScanWorkers) <= 1

\* ------------------------------------------- the rows and the entries
\* The scan of the file system, its worker thread and its callbacks on the
\* tree of the window and on item_map, in renamer/gui.py ("gui") and in
\* rename_app.py ("app"). A row of the tree is [iid, file, idx]: the item,
\* the file whose name it shows and item_map[iid]; idx counts from 0.

\* scan(), gui.py 597-609 and rename_app.py 333-343: nothing while the scan
\* thread is alive; the tree, the list and the map are emptied (gui.py
\* starts its item ids again) and the thread is started. The callbacks
\* already scheduled stay scheduled.
ViewScan(app, fold) ==
    /\ view.scans < MaxViewScans
    /\ ~view.alive
    /\ view' = [view EXCEPT !.app = app, !.entries = <<>>, !.tree = <<>>,
                            !.next_iid = 0, !.alive = TRUE,
                            !.todo = Listing(fold), !.scans = view.scans + 1]
    /\ UNCHANGED <<disk, files, texts, tx, run, task, hist, snap, quiet, envLeft,
                   runsLeft, pool, undeletable, probe, tbl, guiVars>>

\* worker, gui.py 767-808 and rename_app.py 370-408: the thread appends the
\* entry of the next file that is a file and schedules insert_item, the
\* file bound as the default value of its parameters
ViewWorkerStep ==
    /\ view.alive
    /\ view.todo # <<>>
    /\ view' = IF path_exists(disk, Head(view.todo))
               THEN [view EXCEPT !.entries = Append(view.entries, Head(view.todo)),
                                 !.q = Append(view.q, Head(view.todo)),
                                 !.todo = Tail(view.todo)]
               ELSE [view EXCEPT !.todo = Tail(view.todo)]
    /\ UNCHANGED <<disk, files, texts, tx, run, task, hist, snap, quiet, envLeft,
                   runsLeft, pool, undeletable, probe, tbl, guiVars>>

\* worker, gui.py 810-821: the loop is over and the thread ends
ViewWorkerDone ==
    /\ view.alive
    /\ view.todo = <<>>
    /\ view' = [view EXCEPT !.alive = FALSE]
    /\ UNCHANGED <<disk, files, texts, tx, run, task, hist, snap, quiet, envLeft,
                   runsLeft, pool, undeletable, probe, tbl, guiVars>>

\* insert_item, gui.py 781-806: idx = len(self.entries) - 1 when the
\* callback runs, a new item id, the row and item_map[iid] = idx
InsertItemGui(v, f) ==
    [v EXCEPT !.tree = Append(v.tree, [iid |-> v.next_iid, file |-> f,
                                      idx |-> Len(v.entries) - 1]),
              !.next_iid = v.next_iid + 1]

\* insert_item, rename_app.py 387-407: iid = f'i{idx}'; tree.insert raises
\* TclError when the tree has the item, and the callback ends there
InsertItemApp(v, f) ==
    LET idx == Len(v.entries) - 1 IN
    IF \E r \in DOMAIN v.tree : v.tree[r].iid = idx
    THEN v
    ELSE [v EXCEPT !.tree = Append(v.tree, [iid |-> idx, file |-> f, idx |-> idx])]

\* the UI thread runs the next scheduled callback
ViewInsertItem ==
    /\ view.q # <<>>
    /\ LET v == [view EXCEPT !.q = Tail(view.q)] IN
       view' = IF view.app = "gui" THEN InsertItemGui(v, Head(view.q))
               ELSE InsertItemApp(v, Head(view.q))
    /\ UNCHANGED <<disk, files, texts, tx, run, task, hist, snap, quiet, envLeft,
                   runsLeft, pool, undeletable, probe, tbl, guiVars>>

NextView ==
    \/ \E app \in {"gui", "app"}, fold \in {RootR, RootL} : ViewScan(app, fold)
    \/ ViewWorkerStep
    \/ ViewWorkerDone
    \/ ViewInsertItem

SpecView == Init /\ [][NextView]_vars

\* C29: every row of the tree has in item_map the index of the entry of the
\* file the row shows, whatever the order in which the worker and the
\* callbacks of the scans ran; and when the worker has ended and no
\* callback is left, each file of the list has exactly one row.
C29_RowsMatchEntries ==
    /\ \A r \in DOMAIN view.tree :
          /\ view.tree[r].idx \in 0..(Len(view.entries) - 1)
          /\ view.entries[view.tree[r].idx + 1] = view.tree[r].file
    /\ (~view.alive /\ view.q = <<>>) =>
          \A i \in DOMAIN view.entries :
              Cardinality({r \in DOMAIN view.tree :
                              view.tree[r].file = view.entries[i]}) = 1

\* ------------------------------------------------- the blocks of a file
\* C30: the rows of texts index_file writes for one file are at most 10,
\* each holds a text of at least one and at most 5000 characters, and their
\* block_index values lie in 0..9 with no value twice, whatever the number
\* and the lengths of the parts the extractor returned.
C30_BoundedBlocks ==
    probe.op = "blocks" =>
        /\ Cardinality(probe.rows) <= MaxParts
        /\ \A t \in probe.rows :
              /\ t.text.n >= 1
              /\ t.text.n <= MaxBlockLen
              /\ t.block_index \in 0..(MaxParts - 1)
        /\ \A t1, t2 \in probe.rows : t1.block_index = t2.block_index => t1 = t2

\* twelve parts, the first over the cap and the second empty: seven rows,
\* the first cut to the cap, no row for index 1 and none past index 9
C30_Witness ==
    /\ probe.op = "blocks"
    /\ Len(probe.parts) = MaxRawParts
    /\ probe.parts[1].n = MaxBlockLen + 1
    /\ probe.parts[2].n = 0
    /\ probe.parts[3].n = 1
    /\ Cardinality(probe.rows) = 7
    /\ \E t \in probe.rows : t.block_index = 0 /\ t.text.n = MaxBlockLen
    /\ \E t \in probe.rows : t.block_index = 9
    /\ ~\E t \in probe.rows : t.block_index = 1
====
